---- MODULE Spec2Model ----
(***************************************************************************)
(* IzanamiAlgorithm (src/src/IzanamiAlgorithm.js): a bounded retry loop    *)
(* with exponential backoff and a reflection phase, built on Node's        *)
(* EventEmitter.  runTask is an async function: the code between two       *)
(* awaits runs without interruption, so every action below is one such     *)
(* synchronous segment of one runTask invocation.                          *)
(***************************************************************************)
EXTENDS Integers, Sequences, FiniteSets, TLC

\* ---------------------------------------------------------------- bounds
MaxOpt == 2
NumProcs == 2
MaxCalls == 2

\* ------------------------------------------------- constants of the code
DefaultMaxAttempts == 5
DefaultErrorThreshold == 3
DefaultBackoffFactor == 2
DefaultInitialDelay == 1000

VARIABLES
    options,        \* the options object handed to the constructor
    listeners,      \* per event name: what is registered with on()
    maxAttempts, errorThreshold, backoffFactor, initialDelay,
    attempts, errors, errorLoop,
    pc,             \* per runTask caller: where its invocation is suspended
    trace,          \* per caller: what its current invocation did, in order
    history,        \* whether the traces are kept
    callNo,         \* per caller: ordinal of its current invocation
    calls,          \* runTask invocations made on the instance so far
    nextErr,        \* identity of the next Error object to be created
    start,          \* per caller: attempts and errors when its invocation began
    raced,          \* a reset was made while another invocation was suspended
    sinceReset      \* task invocations since construction or the last reset

vars == <<options, listeners, maxAttempts, errorThreshold, backoffFactor,
          initialDelay, attempts, errors, errorLoop, pc, trace, callNo,
          history, calls, nextErr, start, raced, sinceReset>>

config == <<options, listeners, maxAttempts, errorThreshold, backoffFactor,
            initialDelay>>

\* ------------------------------------------------------------ the inputs
Procs == 1..NumProcs

Events == {"beforeAttempt", "success", "error", "reflection",
           "reflectionExit", "failure"}

\* an option is <<>> when the caller left it out, <<v>> when it was given
Opt(S) == {<<>>} \cup {<<v>> : v \in S}

OptionSets ==
    [maxAttempts    : Opt(1..MaxOpt),
     errorThreshold : Opt(1..MaxOpt + 2),
     backoffFactor  : Opt({3}),
     initialDelay   : Opt({0, 7})]

\* listener sets: nothing registered, a returning listener on every event,
\* a returning listener on 'error' alone; and each of these with one
\* listener that throws
BaseListeners ==
    {[e \in Events |-> "none"],
     [e \in Events |-> "returns"],
     [e \in Events |-> IF e = "error" THEN "returns" ELSE "none"]}

ListenerSets ==
    BaseListeners \cup
    {[b EXCEPT ![e] = "throws"] : b \in BaseListeners, e \in Events}

\* ------------------------------------------------------- pure functions
RECURSIVE Pow(_, _)
Pow(b, e) == IF e <= 0 THEN 1 ELSE b * Pow(b, e - 1)

\* options.x || dflt : undefined and 0 are falsy
OrDefault(o, dflt) == IF o = <<>> \/ o[1] = 0 THEN dflt ELSE o[1]

\* one entry of a caller's trace
Ev(op, ev, n, errs) == [op |-> op, ev |-> ev, n |-> n, errs |-> errs]

Log(s, e) == IF history THEN [s EXCEPT !.tr = Append(@, e)] ELSE s

\* EventEmitter.emit: the call is made whatever is registered
emit(s, ev, n, errs) == Log(s, Ev("emit", ev, n, errs))

\* emit throws when a listener throws, and for 'error' also when no
\* listener is registered (ERR_UNHANDLED_ERROR)
EmitThrows(ev) ==
    \/ listeners[ev] = "throws"
    \/ ev = "error" /\ listeners[ev] = "none"

\* this.logger.error(...) in the catch block of runTask
logAttempt(s, err) == Log(s, Ev("sink", "attempt", s.attempts, <<err>>))

\* this.logger.error(...) in the catch block of enterReflectionPhase
logReflection(s, err) == Log(s, Ev("sink", "reflection", 0, <<err>>))

\* reset that forgets to clear the error list
resetKeepsErrors(s) ==
    Log([s EXCEPT !.attempts = 0, !.errorLoop = FALSE, !.sinceReset = 0,
                  !.raced = @ \/ s.overlap],
        Ev("reset", "", 0, <<>>))

reset(s) ==
    Log([s EXCEPT !.attempts = 0, !.errors = <<>>, !.errorLoop = FALSE,
                  !.sinceReset = 0, !.raced = @ \/ s.overlap],
        Ev("reset", "", 0, <<>>))

sleep(s, ms) == [Log(s, Ev("sleep", "", ms, <<>>)) EXCEPT !.pc = "awaitSleep"]

\* the exponent taken as attempts instead of attempts - 1
backoffDelayOffByOne(s) == initialDelay * Pow(backoffFactor, s.attempts)

backoffDelay(s) == initialDelay * Pow(backoffFactor, s.attempts - 1)

\* enterReflectionPhase up to its await
enterReflectionPhase(s) ==
    LET s1 == [s EXCEPT !.errorLoop = TRUE]
    IN  [Log(s1, Ev("onReflection", "", 0, s1.errors))
            EXCEPT !.pc = "awaitReflection"]

\* a catch block that records the Error twice
catchBlockPushesTwice(s, err) ==
    LET s1 == [s EXCEPT !.errors = Append(Append(@, err), err)]
        s2 == logAttempt(s1, err)
        s3 == emit(s2, "error", s2.attempts, <<err>>)
    IN  IF EmitThrows("error")
        THEN [s3 EXCEPT !.pc = "rejected"]
        ELSE IF Len(s3.errors) >= errorThreshold
             THEN enterReflectionPhase(s3)
             ELSE sleep(s3, backoffDelay(s3))

\* a catch block that escalates one error too early
catchBlockEarlyReflection(s, err) ==
    LET s1 == [s EXCEPT !.errors = Append(@, err)]
        s2 == logAttempt(s1, err)
        s3 == emit(s2, "error", s2.attempts, <<err>>)
    IN  IF EmitThrows("error")
        THEN [s3 EXCEPT !.pc = "rejected"]
        ELSE IF Len(s3.errors) + 1 >= errorThreshold
             THEN enterReflectionPhase(s3)
             ELSE sleep(s3, backoffDelay(s3))

\* a catch block that publishes 'error' before it records the Error
catchBlockEmitsFirst(s, err) ==
    LET s1 == [s EXCEPT !.errors = Append(@, err)]
        s2 == emit(s1, "error", s1.attempts, <<err>>)
        s3 == logAttempt(s2, err)
    IN  IF EmitThrows("error")
        THEN [s2 EXCEPT !.pc = "rejected"]
        ELSE IF Len(s3.errors) >= errorThreshold
             THEN enterReflectionPhase(s3)
             ELSE sleep(s3, backoffDelay(s3))

\* the catch block of runTask, entered with the Error that was thrown
catchBlock(s, err) ==
    LET s1 == [s EXCEPT !.errors = Append(@, err)]
        s2 == logAttempt(s1, err)
        s3 == emit(s2, "error", s2.attempts, <<err>>)
    IN  IF EmitThrows("error")
        THEN [s3 EXCEPT !.pc = "rejected"]
        ELSE IF Len(s3.errors) >= errorThreshold
             THEN enterReflectionPhase(s3)
             ELSE sleep(s3, backoffDelay(s3))

\* a listener throws a new Error inside the try block
catchOwn(s) == catchBlock([s EXCEPT !.nextErr = @ + 1], s.nextErr)

\* an exit without its else: 'failure' is published after the reset too
exitRunFallsThrough(s) ==
    IF s.errorLoop
    THEN LET s1 == emit(s, "reflectionExit", 0, <<>>)
         IN  IF EmitThrows("reflectionExit")
             THEN [s1 EXCEPT !.pc = "rejected"]
             ELSE LET s2 == reset(s1)
                      s3 == emit(s2, "failure", 0, s2.errors)
                  IN  IF EmitThrows("failure")
                      THEN [s3 EXCEPT !.pc = "rejected"]
                      ELSE [s3 EXCEPT !.pc = "returned"]
    ELSE LET s1 == emit(s, "failure", 0, s.errors)
         IN  IF EmitThrows("failure")
             THEN [s1 EXCEPT !.pc = "rejected"]
             ELSE [s1 EXCEPT !.pc = "returned"]

\* what follows the while loop
exitRun(s) ==
    IF s.errorLoop
    THEN LET s1 == emit(s, "reflectionExit", 0, <<>>)
         IN  IF EmitThrows("reflectionExit")
             THEN [s1 EXCEPT !.pc = "rejected"]
             ELSE [reset(s1) EXCEPT !.pc = "returned"]
    ELSE LET s1 == emit(s, "failure", 0, s.errors)
         IN  IF EmitThrows("failure")
             THEN [s1 EXCEPT !.pc = "rejected"]
             ELSE [s1 EXCEPT !.pc = "returned"]

\* the bound compared with <= instead of <
loopConditionOffByOne(s) == s.attempts <= maxAttempts /\ ~s.errorLoop

loopCondition(s) == s.attempts < maxAttempts /\ ~s.errorLoop

\* the head of the while loop, up to the await of the task
loopHead(s) ==
    IF loopCondition(s)
    THEN LET s1 == [s EXCEPT !.attempts = @ + 1]
             s2 == emit(s1, "beforeAttempt", s1.attempts, <<>>)
         IN  IF EmitThrows("beforeAttempt")
             THEN catchOwn(s2)
             ELSE [Log(s2, Ev("task", "", s2.attempts, <<>>))
                     EXCEPT !.pc = "awaitTask", !.sinceReset = @ + 1]
    ELSE exitRun(s)

\* a success path without its return: the loop goes on
afterTaskNoReturn(s) == loopHead(emit(s, "success", s.attempts, <<>>))

\* the continuation after the task's promise was fulfilled
afterTask(s) ==
    LET s1 == emit(s, "success", s.attempts, <<>>)
    IN  IF EmitThrows("success")
        THEN catchOwn(s1)
        ELSE [s1 EXCEPT !.pc = "returned"]

\* enterReflectionPhase after the strategy's promise was fulfilled
afterReflection(s) ==
    LET s1 == emit(s, "reflection", 0, s.errors)
    IN  IF EmitThrows("reflection")
        THEN [logReflection(s1, s1.nextErr)
                EXCEPT !.nextErr = @ + 1, !.pc = "reflectionDone"]
        ELSE [s1 EXCEPT !.pc = "reflectionDone"]

\* a reflection failure that is not caught
reflectionFailedPropagates(s) == [s EXCEPT !.pc = "rejected"]

\* enterReflectionPhase after the strategy's promise was rejected
reflectionFailed(s) ==
    [logReflection(s, s.nextErr)
        EXCEPT !.nextErr = @ + 1, !.pc = "reflectionDone"]

\* ------------------------------------------------------------ the state
InFlight == {"awaitTask", "awaitSleep", "awaitReflection", "reflectionDone"}

View(p) ==
    [attempts |-> attempts, errors |-> errors, errorLoop |-> errorLoop,
     nextErr |-> nextErr, sinceReset |-> sinceReset,
     raced |-> raced, overlap |-> \E q \in Procs \ {p} : pc[q] \in InFlight,
     pc |-> pc[p], tr |-> trace[p]]

Commit(p, s) ==
    /\ attempts' = s.attempts
    /\ errors' = s.errors
    /\ errorLoop' = s.errorLoop
    /\ nextErr' = s.nextErr
    /\ sinceReset' = s.sinceReset
    /\ raced' = s.raced
    /\ pc' = [pc EXCEPT ![p] = s.pc]
    /\ trace' = [trace EXCEPT ![p] = s.tr]
    /\ UNCHANGED <<config, history>>

\* the constructor
Construct ==
    /\ options \in OptionSets
    /\ listeners \in ListenerSets
    /\ maxAttempts = OrDefault(options.maxAttempts, DefaultMaxAttempts)
    /\ errorThreshold = OrDefault(options.errorThreshold, DefaultErrorThreshold)
    /\ backoffFactor = OrDefault(options.backoffFactor, DefaultBackoffFactor)
    /\ initialDelay = OrDefault(options.initialDelay, DefaultInitialDelay)
    /\ attempts = 0
    /\ errors = <<>>
    /\ errorLoop = FALSE
    /\ pc = [p \in Procs |-> "idle"]
    /\ trace = [p \in Procs |-> <<>>]
    /\ callNo = [p \in Procs |-> 0]
    /\ calls = 0
    /\ nextErr = 1
    /\ start = [p \in Procs |-> [attempts |-> 0, errors |-> <<>>]]
    /\ raced = FALSE
    /\ sinceReset = 0

Init == Construct /\ history = TRUE

\* the same instance, observed without the per-caller traces; the delays
\* are then not observed either, and the two options behind them are left out
InitOverlap ==
    /\ Construct
    /\ history = FALSE
    /\ options.backoffFactor = <<>>
    /\ options.initialDelay = <<>>

\* ----------------------------------------------------------- the actions
\* a runTask that clears the state of the previous run before it starts
CallResets(p) ==
    /\ pc[p] \notin InFlight
    /\ calls < MaxCalls
    /\ calls' = calls + 1
    /\ callNo' = [callNo EXCEPT ![p] = calls + 1]
    /\ start' = IF history
                THEN [start EXCEPT ![p] = [attempts |-> attempts, errors |-> errors]]
                ELSE start
    /\ Commit(p, loopHead([View(p) EXCEPT !.tr = <<>>, !.attempts = 0,
                                          !.errors = <<>>, !.errorLoop = FALSE]))

\* runTask(...args) is called
Call(p) ==
    /\ pc[p] \notin InFlight
    /\ calls < MaxCalls
    /\ calls' = calls + 1
    /\ callNo' = [callNo EXCEPT ![p] = calls + 1]
    /\ start' = IF history
                THEN [start EXCEPT ![p] = [attempts |-> attempts, errors |-> errors]]
                ELSE start
    /\ Commit(p, loopHead([View(p) EXCEPT !.tr = <<>>]))

\* the promise of this.task(...args) is fulfilled
TaskResolve(p) ==
    /\ pc[p] = "awaitTask"
    /\ Commit(p, afterTask(Log(View(p), Ev("taskResolved", "", attempts, <<>>))))
    /\ UNCHANGED <<callNo, calls, start>>

\* the promise of this.task(...args) is rejected with a new Error
TaskReject(p) ==
    /\ pc[p] = "awaitTask"
    /\ Commit(p, catchOwn(Log(View(p), Ev("taskRejected", "", attempts, <<nextErr>>))))
    /\ UNCHANGED <<callNo, calls, start>>

\* the timer of sleep(delay) fires
SleepDone(p) ==
    /\ pc[p] = "awaitSleep"
    /\ Commit(p, loopHead(View(p)))
    /\ UNCHANGED <<callNo, calls, start>>

\* the promise of this.onReflection(this.errors) is fulfilled
ReflectionResolve(p) ==
    /\ pc[p] = "awaitReflection"
    /\ Commit(p, afterReflection(Log(View(p), Ev("reflectionResolved", "", 0, <<>>))))
    /\ UNCHANGED <<callNo, calls, start>>

\* the promise of this.onReflection(this.errors) is rejected
ReflectionReject(p) ==
    /\ pc[p] = "awaitReflection"
    /\ Commit(p, reflectionFailed(Log(View(p), Ev("reflectionRejected", "", 0, <<nextErr>>))))
    /\ UNCHANGED <<callNo, calls, start>>

\* runTask resumes after await this.enterReflectionPhase()
ReflectionReturn(p) ==
    /\ pc[p] = "reflectionDone"
    /\ Commit(p, loopHead(View(p)))
    /\ UNCHANGED <<callNo, calls, start>>

Step(p) ==
    \/ TaskResolve(p)
    \/ TaskReject(p)
    \/ SleepDone(p)
    \/ ReflectionResolve(p)
    \/ ReflectionReject(p)
    \/ ReflectionReturn(p)

\* one caller that awaits each runTask before it calls again
Idle == \A q \in Procs : pc[q] \notin InFlight

Next ==
    \/ Idle /\ Call(1)
    \/ Step(1)

Spec == Init /\ [][Next]_vars

\* the same caller when every pending task, timer and reflection strategy
\* settles and every continuation is run
SpecFair ==
    /\ Init
    /\ [][Next]_vars
    /\ WF_vars(TaskResolve(1) \/ TaskReject(1))
    /\ WF_vars(SleepDone(1))
    /\ WF_vars(ReflectionResolve(1) \/ ReflectionReject(1))
    /\ WF_vars(ReflectionReturn(1))

\* callers that do not await each other
NextOverlap ==
    \E p \in Procs :
        \/ Call(p)
        \/ Step(p)

SpecOverlap == InitOverlap /\ [][NextOverlap]_vars

\* ------------------------------------------- reading a caller's trace
OpsIn(tr, op) == {i \in DOMAIN tr : tr[i].op = op}
EmitsIn(tr, ev) == {i \in DOMAIN tr : tr[i].op = "emit" /\ tr[i].ev = ev}
SinksIn(tr, kind) == {i \in DOMAIN tr : tr[i].op = "sink" /\ tr[i].ev = kind}

Ops(p, op) == OpsIn(trace[p], op)
Emits(p, ev) == EmitsIn(trace[p], ev)

Finished(p) == pc[p] \in {"returned", "rejected"}
Fresh(p) == callNo[p] = 1
AlwaysFails(p) == Ops(p, "taskResolved") = {}
\* no registered listener throws
Quiet == \A e \in Events : listeners[e] # "throws"

Increasing(seq) == \A i, j \in DOMAIN seq : i < j => seq[i] < seq[j]

\* ------------------------------------------------------------------ C1
\* C1: whatever listeners are registered (none at all included, none of
\* them throwing), a run in which the task failed does not end with
\* runTask itself rejected.
C1_TaskErrorNeverAborts ==
    \A p \in Procs :
        (Quiet /\ Ops(p, "taskRejected") # {}) => pc[p] # "rejected"

\* ------------------------------------------------------------------ C2
\* C2: on a fresh instance whose task always fails, with errorThreshold <=
\* maxAttempts, a finished run has invoked the task exactly errorThreshold
\* times and the reflection strategy exactly once.
C2_ThresholdInvocations ==
    \A p \in Procs :
        (Fresh(p) /\ Finished(p) /\ AlwaysFails(p) /\ Quiet
            /\ errorThreshold <= maxAttempts)
        => /\ Cardinality(Ops(p, "task")) = errorThreshold
           /\ Cardinality(Ops(p, "onReflection")) = 1

\* ------------------------------------------------------------------ C3
\* C3: after a run on a fresh instance whose task always fails, with
\* errorThreshold <= maxAttempts, has returned, errorLoop reads true.
C3_ReflectingAfterRun ==
    \A p \in Procs :
        (Fresh(p) /\ pc[p] = "returned" /\ AlwaysFails(p) /\ Quiet
            /\ errorThreshold <= maxAttempts)
        => errorLoop = TRUE

\* ------------------------------------------------------------------ C4
\* the step in which caller p's runTask returns normally
Returns(p) ==
    /\ pc'[p] = "returned"
    /\ pc[p] # "returned" \/ callNo'[p] # callNo[p]

LastTwo(tr) == IF Len(tr) < 2 THEN <<>> ELSE <<tr[Len(tr) - 1].op, tr[Len(tr)].op>>

C5_ExhaustedInvocations ==
    \A p \in Procs :
        (Fresh(p) /\ Finished(p) /\ AlwaysFails(p) /\ Quiet
            /\ errorThreshold > maxAttempts)
        => /\ Cardinality(Ops(p, "task")) = maxAttempts
           /\ Ops(p, "onReflection") = {}
           /\ ~errorLoop
           /\ Cardinality(Emits(p, "failure")) = 1
           /\ \A i \in Emits(p, "failure") :
                  /\ Len(trace[p][i].errs) = maxAttempts
                  /\ Increasing(trace[p][i].errs)

\* ------------------------------------------------------------------ C6
\* C6: on a fresh instance whose first task invocation succeeds, with no
\* throwing listener, the finished run consists of 'beforeAttempt'(1), one
\* task invocation, 'success'(1) and nothing else (no error sink record,
\* no delay), and runTask returns normally.
C6_SuccessFirstTry ==
    \A p \in Procs :
        (Fresh(p) /\ Finished(p) /\ Quiet
            /\ Len(trace[p]) >= 3 /\ trace[p][3].op = "taskResolved")
        => /\ pc[p] = "returned"
           /\ trace[p] = << Ev("emit", "beforeAttempt", 1, <<>>),
                            Ev("task", "", 1, <<>>),
                            Ev("taskResolved", "", 1, <<>>),
                            Ev("emit", "success", 1, <<>>) >>

\* the first attempt of a fresh instance succeeded and the run is over
C6_Witness ==
    \E p \in Procs :
        /\ Fresh(p) /\ Finished(p) /\ Quiet
        /\ Ops(p, "taskResolved") # {}
        /\ Emits(p, "success") # {}

\* ------------------------------------------------------------------ C7
\* C7: while the reflection strategy runs the flag is already set; and when
\* the strategy failed (no listener throwing), the finished run has
\* published no 'reflection', has recorded the failure once through the
\* error sink, has returned normally, and ended with 'reflectionExit'
\* followed by the reset of attempts, errors and errorLoop.
C7_ReflectionFailureContained ==
    \A p \in Procs :
        /\ pc[p] = "awaitReflection" => errorLoop
        /\ (Finished(p) /\ Quiet /\ Ops(p, "reflectionRejected") # {})
           => /\ pc[p] = "returned"
              /\ Emits(p, "reflection") = {}
              /\ Cardinality(SinksIn(trace[p], "reflection")) = 1
              /\ Cardinality(Ops(p, "onReflection")) = 1
              /\ LastTwo(trace[p]) = <<"emit", "reset">>
              /\ trace[p][Len(trace[p]) - 1].ev = "reflectionExit"
              /\ attempts = 0 /\ errors = <<>> /\ ~errorLoop

\* a run whose reflection strategy failed is over
C7_Witness ==
    \E p \in Procs :
        Finished(p) /\ Quiet /\ Ops(p, "reflectionRejected") # {}

\* ------------------------------------------------------------------ C8
\* attempts started by caller p before position i of its trace
AttemptsBefore(p, i) == Cardinality({j \in Emits(p, "beforeAttempt") : j < i})

\* C8: in a run on a fresh instance every delay comes right after the
\* 'error' notification of a failed attempt k >= 1 and lasts
\* initialDelay * backoffFactor^(k-1) ms: initialDelay after attempt 1,
\* backoffFactor times the previous delay after each later attempt.
C8_BackoffDelay ==
    \A p \in Procs :
        Fresh(p) =>
            \A i \in Ops(p, "sleep") :
                LET k == AttemptsBefore(p, i)
                    earlier == {j \in Ops(p, "sleep") : j < i}
                IN  /\ k >= 1
                    /\ trace[p][i - 1] = Ev("emit", "error", k, trace[p][i - 1].errs)
                    /\ Cardinality(earlier) = k - 1
                    /\ trace[p][i].n = initialDelay * Pow(backoffFactor, k - 1)
                    /\ earlier = {} => trace[p][i].n = initialDelay
                    /\ \A j \in earlier :
                           AttemptsBefore(p, j) = k - 1
                               => trace[p][i].n = backoffFactor * trace[p][j].n
                    /\ i < Len(trace[p]) =>
                           \/ trace[p][i + 1] = Ev("emit", "beforeAttempt", k + 1, <<>>)
                           \/ trace[p][i + 1].ev = "failure"

\* a fresh run that has backed off three times and started attempt 4
C8_Witness ==
    \E p \in Procs :
        /\ Fresh(p)
        /\ Cardinality(Ops(p, "sleep")) >= 3
        /\ Emits(p, "beforeAttempt") # {}
        /\ pc[p] = "awaitTask"

\* ------------------------------------------------------------------ C9
\* C9: whether the runTask invocations overlap or not, attempts never
\* exceeds maxAttempts, and no more than maxAttempts task invocations are
\* made between two resets.
C9_AttemptsBounded ==
    /\ attempts <= maxAttempts
    /\ sinceReset <= maxAttempts

\* two invocations in flight with the attempts used up
C9_Witness ==
    \E p, q \in Procs :
        /\ p # q
        /\ pc[p] \in InFlight /\ pc[q] \in InFlight
        /\ attempts = maxAttempts
        /\ sinceReset = maxAttempts

\* ----------------------------------------------------------------- C10
\* failed attempts recorded in a trace
Failed(tr) == Cardinality(SinksIn(tr, "attempt"))

\* C10: with invocations that do not overlap, errors is never longer than
\* attempts and holds the Errors in the order they were raised; a step
\* that processes a failed attempt appends exactly that one Error, and any
\* other step leaves errors alone or empties it.
C10_ErrorLog ==
    /\ [](Len(errors) <= attempts /\ Increasing(errors))
    /\ [][ \A p \in {1} :
             LET before == IF callNo'[p] # callNo[p] THEN 0 ELSE Failed(trace[p])
             IN  IF Failed(trace'[p]) = before + 1
                 THEN errors' = Append(errors, nextErr)
                 ELSE /\ Failed(trace'[p]) = before
                      /\ errors' = errors \/ errors' = <<>>
         ]_vars

\* errors accumulated over failed attempts, with a later attempt under way
C10_Witness ==
    /\ Len(errors) >= 2
    /\ attempts = Len(errors) + 1
    /\ pc[1] = "awaitTask"

\* ----------------------------------------------------------------- C11
\* what an option given by the caller asks for
Asked(o, dflt) == IF o = <<>> THEN dflt ELSE o[1]

\* C11: every option is resolved to the value the caller gave, and to the
\* default only when the caller gave none; in particular every backoff
\* delay of an instance built with initialDelay 0 is 0 ms.
C11_OptionsHonoured ==
    /\ maxAttempts = Asked(options.maxAttempts, DefaultMaxAttempts)
    /\ errorThreshold = Asked(options.errorThreshold, DefaultErrorThreshold)
    /\ backoffFactor = Asked(options.backoffFactor, DefaultBackoffFactor)
    /\ initialDelay = Asked(options.initialDelay, DefaultInitialDelay)
    /\ options.initialDelay = <<0>> =>
           \A p \in Procs : \A i \in Ops(p, "sleep") : trace[p][i].n = 0

\* ----------------------------------------------------------------- C12
\* C12: with invocations that do not overlap, errorLoop turns true only in
\* a step that processes a failed attempt and leaves errors.length >=
\* errorThreshold, the strategy being invoked in that step on the whole of
\* errors; a run invokes the strategy at most once, right after the
\* 'error' notification; and with errorThreshold > maxAttempts no run ever
\* sets the flag or invokes the strategy.
C12_ReflectionEntry ==
    /\ [](\A p \in Procs :
            /\ Cardinality(Ops(p, "onReflection")) <= 1
            /\ \A i \in Ops(p, "onReflection") :
                   /\ i > 1 /\ trace[p][i - 1].op = "emit"
                   /\ trace[p][i - 1].ev = "error"
                   /\ Len(trace[p][i].errs) >= errorThreshold
                   /\ Increasing(trace[p][i].errs)
                   /\ pc[p] = "awaitReflection" =>
                          errorLoop /\ trace[p][i].errs = errors
            /\ errorThreshold > maxAttempts =>
                   ~errorLoop /\ Ops(p, "onReflection") = {})
    /\ [][ (~errorLoop /\ errorLoop') =>
             \E p \in Procs :
                 /\ Failed(trace'[p]) =
                        (IF callNo'[p] # callNo[p] THEN 0 ELSE Failed(trace[p])) + 1
                 /\ Len(errors') >= errorThreshold
                 /\ trace'[p][Len(trace'[p])] = Ev("onReflection", "", 0, errors')
         ]_vars

\* a second run that escalates on errors the first run left behind
C12_Witness ==
    \E p \in Procs :
        /\ callNo[p] = 2
        /\ pc[p] = "awaitReflection"
        /\ start[p].errors # <<>>
        /\ Len(errors) = errorThreshold

\* ----------------------------------------------------------------- C13
Last(tr) == tr[Len(tr)]
IsPrefix(a, b) == Len(a) <= Len(b) /\ SubSeq(b, 1, Len(a)) = a

\* C13: a runTask called after the previous one returned resumes from the
\* state that one left.  After a reflection exit: attempt 1, empty errors.
\* After a success on attempt k: the first attempt is k + 1 (none when k is
\* maxAttempts), the attempts of the run are numbered on from there and
\* stop at maxAttempts, and the earlier errors count toward the threshold.
\* After an exhausted run: no task invocation, 'failure' again with the
\* errors kept.
C13_Resumes ==
    /\ [](\A p \in Procs :
            /\ \A i \in Emits(p, "beforeAttempt") :
                   /\ trace[p][i].n = start[p].attempts + AttemptsBefore(p, i) + 1
                   /\ trace[p][i].n <= maxAttempts
            /\ \A i \in Ops(p, "sleep") :
                   Len(start[p].errors) + Failed(SubSeq(trace[p], 1, i)) < errorThreshold
            /\ \A i \in Ops(p, "onReflection") :
                   /\ IsPrefix(start[p].errors, trace[p][i].errs)
                   /\ Len(trace[p][i].errs) =
                          Len(start[p].errors) + Failed(SubSeq(trace[p], 1, i)))
    /\ [][ \A p \in Procs :
             (callNo'[p] # callNo[p] /\ pc[p] = "returned") =>
                 LET last == Last(trace[p])
                     first == trace'[p][1]
                 IN  /\ last.op = "reset" =>
                            /\ start'[p] = [attempts |-> 0, errors |-> <<>>]
                            /\ first = Ev("emit", "beforeAttempt", 1, <<>>)
                     /\ (last.ev = "success" /\ last.n < maxAttempts) =>
                            /\ start'[p] = [attempts |-> last.n, errors |-> errors]
                            /\ first = Ev("emit", "beforeAttempt", last.n + 1, <<>>)
                            /\ IsPrefix(errors, errors')
                     /\ (last.ev = "failure"
                            \/ (last.ev = "success" /\ last.n = maxAttempts)) =>
                            /\ trace'[p] = <<Ev("emit", "failure", 0, errors)>>
                            /\ listeners["failure"] # "throws" => pc'[p] = "returned"
                            /\ errors' = errors /\ attempts' = attempts
                            /\ attempts = maxAttempts
         ]_vars

\* a second run that started from the attempts and errors of the first
C13_Witness ==
    \E p \in Procs :
        /\ callNo[p] = 2
        /\ start[p].attempts >= 2
        /\ start[p].errors # <<>>
        /\ pc[p] = "awaitReflection"
        /\ Cardinality(Ops(p, "task")) = 1

\* ----------------------------------------------------------------- C14
\* what may follow entry e of a run's trace, given the entry nxt after it
FollowsInOrder(e, nxt) ==
    /\ (e.op = "emit" /\ e.ev = "beforeAttempt") =>
           IF listeners["beforeAttempt"] = "throws"
           THEN nxt.op = "sink" /\ nxt.ev = "attempt" /\ nxt.n = e.n
           ELSE nxt = Ev("task", "", e.n, <<>>)
    /\ e.op = "task" =>
           nxt.op \in {"taskResolved", "taskRejected"} /\ nxt.n = e.n
    /\ e.op = "taskResolved" => nxt = Ev("emit", "success", e.n, <<>>)
    /\ e.op = "taskRejected" => nxt = Ev("sink", "attempt", e.n, e.errs)
    /\ (e.op = "emit" /\ e.ev = "success") =>
           nxt.op = "sink" /\ nxt.ev = "attempt" /\ nxt.n = e.n
    /\ (e.op = "sink" /\ e.ev = "attempt") => nxt = Ev("emit", "error", e.n, e.errs)
    /\ (e.op = "emit" /\ e.ev = "error") => nxt.op \in {"sleep", "onReflection"}
    /\ e.op = "sleep" => nxt.op = "emit" /\ nxt.ev \in {"beforeAttempt", "failure"}
    /\ (nxt.op = "emit" /\ nxt.ev = "beforeAttempt") => e.op = "sleep"

\* the attempt number published last by caller p
LastAttempt(p) ==
    LET is == Emits(p, "beforeAttempt")
    IN  IF is = {} THEN 0
        ELSE trace[p][CHOOSE i \in is : \A j \in is : j <= i].n

\* C14: the trace of a run is in the order of the code: 'beforeAttempt'(n)
\* with attempts already n, then task invocation n, its outcome, and on
\* failure the error sink record, then 'error'(n), then the delay or the
\* reflection strategy; a 'beforeAttempt' other than the first comes only
\* after a delay that has elapsed, and carries the previous number plus 1;
\* while the task or the delay is pending nothing else has been done.
C14_StepsInOrder ==
    \A p \in Procs :
        /\ \A i \in 1..(Len(trace[p]) - 1) :
               FollowsInOrder(trace[p][i], trace[p][i + 1])
        /\ \A i, j \in Emits(p, "beforeAttempt") :
               (i < j /\ ~\E m \in Emits(p, "beforeAttempt") : i < m /\ m < j)
                   => trace[p][j].n = trace[p][i].n + 1
        /\ pc[p] = "awaitTask" =>
               Last(trace[p]) = Ev("task", "", attempts, <<>>)
        /\ pc[p] = "awaitSleep" =>
               /\ Last(trace[p]).op = "sleep"
               /\ LastAttempt(p) = attempts
               /\ Len(errors) >= 1
               /\ trace[p][Len(trace[p]) - 1] =
                      Ev("emit", "error", attempts, <<errors[Len(errors)]>>)

\* a run in its second delay
C14_Witness ==
    \E p \in Procs :
        /\ pc[p] = "awaitSleep"
        /\ Cardinality(Ops(p, "sleep")) = 2
        /\ Cardinality(Ops(p, "taskRejected")) = 2

\* ----------------------------------------------------------------- C15
\* C15: with no throwing listener, every delay of a run is followed by
\* another attempt of that run:
\* none comes after the attempt that triggers reflection, and none before
\* the 'failure' notification that ends a run.
C15_DelayOnlyBetweenAttempts ==
    \A p \in Procs :
        Quiet =>
            \A i \in Ops(p, "sleep") :
                i < Len(trace[p]) =>
                    /\ trace[p][i + 1].op = "emit"
                    /\ trace[p][i + 1].ev = "beforeAttempt"

\* ----------------------------------------------------------------- C16
\* C16: with overlapping invocations errors can get longer than attempts,
\* and it does so only after one invocation has reset the state while
\* another was suspended on its task, its delay or its reflection.
C16_OnlyByRacingReset ==
    /\ Len(errors) > attempts => raced
    /\ raced => calls >= 2

\* after such a reset the surviving invocation has made a new attempt:
\* more errors than attempts, and the run goes on into its next delay
C16_Witness ==
    \E p, q \in Procs :
        /\ p # q
        /\ pc[p] = "returned"
        /\ pc[q] = "awaitSleep"
        /\ raced
        /\ sinceReset >= 1
        /\ attempts >= 1
        /\ Len(errors) > attempts

\* ----------------------------------------------------------------- C17
Terminal(e) == e.op = "emit" /\ e.ev \in {"success", "failure", "reflectionExit"}

\* every invocation that is pending is eventually over, by return or by
\* rejection, and has invoked the task at most maxAttempts times
RunsEnd ==
    /\ [](\A p \in Procs : Cardinality(Ops(p, "task")) <= maxAttempts)
    /\ \A p \in Procs : (pc[p] \in InFlight) ~> Finished(p)

\* C17: with no throwing listener, an invocation that is no longer pending
\* is at one of its exit points: it has returned, after 'success',
\* 'failure' or 'reflectionExit' and the reset, and has invoked the task
\* at most maxAttempts times.
C17_EndsAtExitPoint ==
    \A p \in Procs :
        (Quiet /\ callNo[p] >= 1 /\ pc[p] \notin InFlight)
        => /\ pc[p] = "returned"
           /\ Terminal(Last(trace[p])) \/ Last(trace[p]).op = "reset"
           /\ Cardinality(Ops(p, "task")) <= maxAttempts

\* ----------------------------------------------------------------- C18
\* C18: whatever the listeners do, a task invocation that succeeded is
\* the last one of its run, no error is recorded for it, and the run
\* returns normally.
C18_ListenersDoNotInfluence ==
    \A p \in Procs :
        \A i \in Ops(p, "taskResolved") :
            /\ \A j \in Ops(p, "task") : j < i
            /\ \A j \in SinksIn(trace[p], "attempt") : j < i
            /\ pc[p] = "returned"

\* ----------------------------------------------------------------- C19
Terminals(tr) == {i \in DOMAIN tr : Terminal(tr[i])}

====
